---- MODULE Spec2Model ----
(***************************************************************************)
(* BMO voice client (voice-client/bmo_voice.py): the conversation state    *)
(* machine of BMOVoiceClient, the callback server's /chime and /play       *)
(* handlers and the interrupt detector, as threads interleaved at the      *)
(* level of the statements that touch shared state (ClientState, _running, *)
(* _interrupted, the audio device).                                        *)
(*                                                                         *)
(* A microphone frame is a BOOLEAN: TRUE when its energy exceeds the       *)
(* threshold the reader compares it with (silence_threshold for the        *)
(* recorders, 2 * silence_threshold for the interrupt detector).           *)
(***************************************************************************)
EXTENDS Integers, Sequences, FiniteSets, TLC

VARIABLES
    state,                \* BMOVoiceClient.state (ClientState)
    running,              \* BMOVoiceClient._running
    lockHeld,             \* BMOVoiceClient._lock is held
    interrupted,          \* BMOVoiceClient._interrupted
    follow_up_enabled,    \* follow_up_duration > 0 (configuration)
    enable_stop_interrupt,\* configuration
    cbUp,                 \* the callback server is serving
    playback,             \* the orchestrator's sd.play: "none", "playing", "stopped"
    pcMain,               \* position of the main thread
    prediction,           \* scores of the items of prediction.items() not yet visited
    turn,                 \* 1: initial turn, 2: follow-up turn
    frames,               \* frames: list of the recorder in progress
    silence_count,
    has_speech,
    waited,
    iter,                 \* loop iterations done by the recorder in progress
    audio_data,           \* utterance handed to _send_to_daemon
    response_audio,       \* "none", "empty", "audio"
    cur,                  \* detector of the playback in progress (0: none)
    det,                  \* interrupt detector threads
    pcCb,                 \* position of the callback server thread
    cbFrames,             \* _listen_for_confirmation: frames read
    cbSilence,            \* _listen_for_confirmation: silence_count
    cbSpeech,             \* _listen_for_confirmation: has_speech
    cbResult,             \* the response being sent by the handler
    cbEvents,             \* history of the /chime request being handled
    pcStop,               \* position of an external caller of stop()
    events,               \* history of the wake event in progress
    fired,                \* a detector declared an interrupt since the last playback began
    frameWakes,           \* Listening phases started for the frame being processed
    reset_due,            \* a trigger fired and _oww_model.reset() was not called since
    feed,                 \* a microphone feed, or a text, given to one function on its own
    params,               \* the configuration that function runs with
    applied,              \* what the function did on that feed
    pcHb,                 \* position of the heartbeat thread
    sent,                 \* requests sent to /voice/register and /voice/unregister
    hbFailed,             \* the last register request failed
    app_running,          \* BMOVoiceApp._running
    worker,               \* the voice-client threads of the menu-bar app
    voice_thread,         \* BMOVoiceApp._voice_thread and _voice_client (0: None)
    pending,              \* _pending_icon_state, _pending_status, _pending_start_stop
    display,              \* the icon, status_item.title, start_stop.title
    pcUi,                 \* position of the app's main thread
    startup_due           \* the _startup_timer has not fired yet

\* ---------------------------------------------------------------- bounds

NumModels == 2            \* entries of prediction.items()
MaxScore == 2             \* scores are 0..MaxScore
WwThreshold == 1          \* self.ww_threshold, on that scale
MaxFrames == 3            \* max_frames of _record_utterance
SilenceFramesNeeded == 2  \* silence_frames_needed / silence_needed
StartWaitFrames == 2      \* start_wait_frames of _listen_for_follow_up
ConfirmMaxFrames == 3     \* max_frames of _listen_for_confirmation
ConfirmSilenceNeeded == 1 \* silence_needed of _listen_for_confirmation
MaxDetectors == 2         \* detector threads alive at once
MaxWorkers == 2           \* voice-client threads of the menu-bar app alive at once
FeedFrames == 5           \* largest max_frames of a recorder run on a feed

\* ------------------------------------------------------ program constants

InterruptFrames == 3      \* speech_frames >= 3

IDLE == "idle"
LISTENING == "listening"
PROCESSING == "processing"
SPEAKING == "speaking"
State == {IDLE, LISTENING, PROCESSING, SPEAKING}

\* A WAV buffer, by what the claims read of it: how many frames it holds
\* (its duration is nframes * frame_size / sample_rate) and how many of them
\* exceed the silence threshold. None is Python's None.
None == [wav |-> FALSE, nframes |-> 0, nloud |-> 0]
PcmToWav(fs) ==
    [wav |-> TRUE, nframes |-> Len(fs),
     nloud |-> Cardinality({i \in DOMAIN fs : fs[i]})]

FollowUpMaxFrames == StartWaitFrames + MaxFrames

Detectors == 1..MaxDetectors
DeadDetector == [st |-> "dead", speech_frames |-> 0, stop |-> FALSE]
Alive(k) == det[k].st # "dead"
NumAlive == Cardinality({k \in Detectors : Alive(k)})

Count(tag) == Cardinality({i \in DOMAIN events : events[i] = tag})

sharedVars == <<state, running, lockHeld, interrupted, cbUp, playback>>
\* What no step of the threads changes: the configuration, and the feed of
\* a function that is run on its own.
harnessVars == <<feed, params, applied>>
\* The heartbeat thread and the registry requests, which the steps of the
\* voice interaction do not touch.
lifeVars == <<pcHb, sent, hbFailed>>
\* The menu-bar app, which is another program around the voice client.
appVars == <<app_running, worker, voice_thread, pending, display, pcUi, startup_due>>
configVars == <<follow_up_enabled, enable_stop_interrupt, harnessVars, lifeVars, appVars>>
recVars == <<frames, silence_count, has_speech, waited, iter>>
mainVars == <<pcMain, prediction, turn, recVars, audio_data, response_audio, cur>>
cbVars == <<pcCb, cbFrames, cbSilence, cbSpeech, cbResult, cbEvents>>
histVars == <<events, fired, frameWakes, reset_due>>
vars == <<sharedVars, configVars, mainVars, det, cbVars, pcStop, histVars>>

\* ------------------------------------------------------------------ Init

MachineInit ==
    /\ state = IDLE
    /\ running = FALSE
    /\ lockHeld = FALSE
    /\ interrupted = FALSE
    /\ follow_up_enabled \in BOOLEAN
    /\ enable_stop_interrupt \in BOOLEAN
    /\ cbUp = FALSE
    /\ playback = "none"
    /\ pcMain = "start"
    /\ prediction = <<>>
    /\ turn = 1
    /\ frames = <<>>
    /\ silence_count = 0
    /\ has_speech = FALSE
    /\ waited = 0
    /\ iter = 0
    /\ audio_data = None
    /\ response_audio = "none"
    /\ cur = 0
    /\ det = [k \in Detectors |-> DeadDetector]
    /\ pcCb = "serve"
    /\ cbFrames = 0
    /\ cbSilence = 0
    /\ cbSpeech = FALSE
    /\ cbResult = "none"
    /\ cbEvents = <<>>
    /\ pcStop = "idle"
    /\ events = <<>>
    /\ fired = FALSE
    /\ frameWakes = 0
    /\ reset_due = FALSE
    /\ pcHb = "none"
    /\ sent = {}
    /\ hbFailed = FALSE
    /\ app_running = FALSE
    /\ worker = [w \in 1..MaxWorkers |-> [pc |-> "none", stop |-> FALSE]]
    /\ voice_thread = 0
    /\ pending = [icon |-> "None", status |-> "None", start_stop |-> "None"]
    /\ display = [icon |-> "stopped", status |-> "Status: Stopped", start_stop |-> "Start"]
    /\ pcUi = "idle"
    /\ startup_due = TRUE

NoParams == [max_frames |-> 0, silence_needed |-> 0, start_wait_frames |-> 0, played |-> 0]
NotApplied == [fn |-> "none"]

Init ==
    /\ MachineInit
    /\ feed = <<>>
    /\ params = NoParams
    /\ applied = NotApplied

\* ------------------------------------------------- main thread: lifecycle

\* start(): _running = True, the wake-word model is loaded (a failure raises
\* out of start), the callback server is started and _listen_loop entered.
Start ==
    /\ pcMain = "start"
    /\ running' = TRUE
    /\ \/ /\ cbUp' = TRUE
          /\ pcMain' = "listen_read"
       \/ /\ cbUp' = cbUp
          /\ pcMain' = "crashed"
    /\ UNCHANGED <<state, lockHeld, interrupted, playback, configVars, prediction,
                   turn, recVars, audio_data, response_audio, cur, det, cbVars,
                   pcStop, histVars>>

\* _listen_loop: `while self._running` and stream.read of one frame. An
\* overflowed frame is dropped and the loop comes back here; a read error
\* leaves the loop through its except clause.
ListenRead ==
    /\ pcMain = "listen_read"
    /\ IF ~running
       THEN pcMain' = "listen_finally"
       ELSE \/ pcMain' = "listen_check"
            \/ pcMain' = "listen_finally"
    /\ frameWakes' = 0
    /\ UNCHANGED <<sharedVars, configVars, prediction, turn, recVars, audio_data,
                   response_audio, cur, det, cbVars, pcStop, events, fired, reset_due>>

\* `if self.state != State.IDLE: continue`
ListenCheck ==
    /\ pcMain = "listen_check"
    /\ pcMain' = IF state # IDLE THEN "listen_read" ELSE "listen_predict"
    /\ UNCHANGED <<sharedVars, configVars, prediction, turn, recVars, audio_data,
                   response_audio, cur, det, cbVars, pcStop, histVars>>

\* prediction = self._oww_model.predict(frame_data): a score for each model.
ListenPredict ==
    /\ pcMain = "listen_predict"
    /\ \E p \in [1..NumModels -> 0..MaxScore] : prediction' = p
    /\ pcMain' = "listen_scan"
    /\ UNCHANGED <<sharedVars, configVars, turn, recVars, audio_data,
                   response_audio, cur, det, cbVars, pcStop, histVars>>

\* The items the for loop still visits once _handle_wake has returned:
\* none, `self._oww_model.reset(); break` ends the loop.
AfterTrigger(rest) == <<>>

\* Mutant of Exceeds: a score equal to the threshold triggers too.
ExceedsOrEquals(score) == score >= WwThreshold

\* `if score > self.ww_threshold`
Exceeds(score) == score > WwThreshold

\* `for model_name, score in prediction.items(): if score > threshold:
\* self._handle_wake()`.
ListenScan ==
    /\ pcMain = "listen_scan"
    /\ IF prediction = <<>>
       THEN /\ pcMain' = "listen_read"
            /\ prediction' = prediction
            /\ reset_due' = reset_due
       ELSE IF Exceeds(Head(prediction))
       THEN /\ pcMain' = "wake_gate"
            /\ prediction' = AfterTrigger(Tail(prediction))
            /\ reset_due' = TRUE
       ELSE /\ pcMain' = "listen_scan"
            /\ prediction' = Tail(prediction)
            /\ reset_due' = reset_due
    /\ UNCHANGED <<sharedVars, configVars, turn, recVars, audio_data,
                   response_audio, cur, det, cbVars, pcStop, events, fired, frameWakes>>

\* After _handle_wake returns: self._oww_model.reset(), and the loop goes on
\* with the items left to it.
ListenReset ==
    /\ pcMain = "listen_reset"
    /\ prediction' = prediction
    /\ reset_due' = FALSE
    /\ pcMain' = "listen_scan"
    /\ UNCHANGED <<sharedVars, configVars, turn, recVars, audio_data,
                   response_audio, cur, det, cbVars, pcStop, events, fired, frameWakes>>

\* finally: self.stop() -- _running = False, then the callback server's
\* shutdown(), which returns once serve_forever has left its loop, that is
\* once the request being handled is finished.
ListenFinally ==
    /\ pcMain = "listen_finally"
    /\ running' = FALSE
    /\ pcMain' = "stop_shutdown"
    /\ UNCHANGED <<state, lockHeld, interrupted, cbUp, playback, configVars,
                   prediction, turn, recVars, audio_data, response_audio, cur,
                   det, cbVars, pcStop, histVars>>

MainShutdown ==
    /\ pcMain = "stop_shutdown"
    /\ pcCb = "serve"
    /\ cbUp' = FALSE
    /\ pcMain' = "done"
    /\ UNCHANGED <<state, running, lockHeld, interrupted, playback, configVars,
                   prediction, turn, recVars, audio_data, response_audio, cur,
                   det, cbVars, pcStop, histVars>>

\* ----------------------------------------------- main thread: _handle_wake

\* `with self._lock: if self.state != State.IDLE: return`
GateObserves == state

HandleWakeGate ==
    /\ pcMain = "wake_gate"
    /\ ~lockHeld
    /\ IF GateObserves # IDLE
       THEN /\ lockHeld' = FALSE
            /\ pcMain' = "listen_reset"
       ELSE /\ lockHeld' = TRUE
            /\ pcMain' = "wake_set"
    /\ UNCHANGED <<state, running, interrupted, cbUp, playback, configVars,
                   prediction, turn, recVars, audio_data, response_audio, cur,
                   det, cbVars, pcStop, histVars>>

\* `self.state = State.LISTENING` and the release of the lock.
HandleWakeSet ==
    /\ pcMain = "wake_set"
    /\ state' = LISTENING
    /\ lockHeld' = FALSE
    /\ turn' = 1
    /\ pcMain' = "vil_sound"
    /\ events' = <<"s:listening">>
    /\ frameWakes' = frameWakes + 1
    /\ UNCHANGED <<running, interrupted, cbUp, playback, configVars, prediction,
                   recVars, audio_data, response_audio, cur, det, cbVars, pcStop,
                   fired, reset_due>>

\* except Exception: log, play_error_sound (which may raise in its turn).
WakeExcept ==
    /\ pcMain \in {"wake_except"}
    /\ \/ pcMain' = "wake_finally"
       \/ pcMain' = "wake_finally_raise"
    /\ events' = events \o <<"error_tone">>
    /\ UNCHANGED <<sharedVars, configVars, prediction, turn, recVars, audio_data,
                   response_audio, cur, det, cbVars, pcStop, fired, frameWakes, reset_due>>

\* Mutant of FinallyState: the finally clause leaves ClientState as it is.
FinallyStateKept == state

\* finally: self.state = State.IDLE. An exception still in flight goes on to
\* _listen_loop's except clause and finally.
FinallyState == IDLE

WakeFinally ==
    /\ pcMain \in {"wake_finally", "wake_finally_raise"}
    /\ state' = FinallyState
    /\ pcMain' = IF pcMain = "wake_finally" THEN "listen_reset" ELSE "listen_finally"
    /\ events' = <<>>
    /\ audio_data' = None
    /\ response_audio' = "none"
    /\ frames' = <<>>
    /\ silence_count' = 0
    /\ has_speech' = FALSE
    /\ waited' = 0
    /\ iter' = 0
    /\ turn' = 1
    /\ UNCHANGED <<running, lockHeld, interrupted, cbUp, playback, configVars,
                   prediction, cur, det, cbVars, pcStop, fired, frameWakes, reset_due>>

\* ------------------------------------ main thread: _voice_interaction_loop

\* `if initial: play_listening_sound(self.volume)`; an audio error raises to
\* _handle_wake's except clause.
InteractionSound ==
    /\ pcMain = "vil_sound"
    /\ \/ pcMain' = "vil_listening"
       \/ pcMain' = "wake_except"
    /\ events' = events \o <<"listening_sound">>
    /\ UNCHANGED <<sharedVars, configVars, prediction, turn, recVars, audio_data,
                   response_audio, cur, det, cbVars, pcStop, fired, frameWakes, reset_due>>

\* `self.state = State.LISTENING` and the entry of _record_utterance.
InteractionListening ==
    /\ pcMain = "vil_listening"
    /\ state' = LISTENING
    /\ frames' = <<>>
    /\ silence_count' = 0
    /\ has_speech' = FALSE
    /\ waited' = 0
    /\ iter' = 0
    /\ pcMain' = "record"
    /\ events' = events \o <<"s:listening">>
    /\ UNCHANGED <<running, lockHeld, interrupted, cbUp, playback, configVars,
                   prediction, turn, audio_data, response_audio, cur, det, cbVars,
                   pcStop, fired, frameWakes, reset_due>>

\* Locals of a recorder that has returned.
ClearRecorder ==
    /\ frames' = <<>>
    /\ silence_count' = 0
    /\ has_speech' = FALSE
    /\ waited' = 0
    /\ iter' = 0

\* Mutant of RecordResult: the test of has_speech is missing.
RecordResultUnchecked(fs, speech) == PcmToWav(fs)

\* What _record_utterance returns after its loop: `if not has_speech: return
\* None`, else the WAV of all the frames read.
RecordResult(fs, speech) == IF ~speech THEN None ELSE PcmToWav(fs)

\* Mutant of SilenceBreaks: one quiet frame more is waited for.
SilenceBreaksLate(speech, silence, needed) == speech /\ silence > needed

\* Mutant of SilenceBreaks: the test of has_speech is missing.
SilenceBreaksUnheard(speech, silence, needed) == silence >= needed

\* `if has_speech and silence_count >= silence_frames_needed: break`
SilenceBreaks(speech, silence, needed) == speech /\ silence >= needed

\* _record_utterance's test after each frame, with the model's
\* silence_frames_needed.
RecordBreaks(speech, silence) == SilenceBreaks(speech, silence, SilenceFramesNeeded)

\* _voice_interaction_loop after _record_utterance: `if audio_data is None
\* ...: return`, else on to Processing.
AfterRecord(data) ==
    /\ audio_data' = data
    /\ ClearRecorder
    /\ IF data = None
       THEN /\ pcMain' = "wake_finally"
            /\ events' = events \o <<"no_utterance">>
       ELSE /\ pcMain' = "processing"
            /\ events' = events \o <<"utterance">>

\* One iteration of _record_utterance's `for _ in range(max_frames)`: the
\* test of _running, the read (an audio error returns None), the frame
\* appended and the energy test; with what follows the loop when this
\* iteration ends it.
RecordFrame ==
    /\ pcMain = "record"
    /\ iter < MaxFrames
    /\ IF ~running
       THEN AfterRecord(None)
       ELSE \/ \E loud \in BOOLEAN :
                 LET fs == Append(frames, loud)
                     sp == has_speech \/ loud
                     sc == IF loud THEN 0 ELSE silence_count + 1
                 IN IF RecordBreaks(sp, sc) \/ iter + 1 >= MaxFrames
                    THEN AfterRecord(RecordResult(fs, sp))
                    ELSE /\ frames' = fs
                         /\ has_speech' = sp
                         /\ silence_count' = sc
                         /\ iter' = iter + 1
                         /\ UNCHANGED <<waited, pcMain, audio_data, events>>
            \/ AfterRecord(None)
    /\ UNCHANGED <<sharedVars, configVars, prediction, turn, response_audio, cur,
                   det, cbVars, pcStop, fired, frameWakes, reset_due>>

\* `self.state = State.PROCESSING` (initial turn and follow-up turn).
SetProcessing ==
    /\ pcMain = "processing"
    /\ state' = PROCESSING
    /\ pcMain' = "send"
    /\ events' = events \o <<"s:processing">>
    /\ UNCHANGED <<running, lockHeld, interrupted, cbUp, playback, configVars,
                   prediction, turn, recVars, audio_data, response_audio, cur, det,
                   cbVars, pcStop, fired, frameWakes, reset_due>>

\* The ways the transcribe call fails: a status other than 200,
\* requests.Timeout, another requests.RequestException.
Failures == {"status", "timeout", "network"}

\* Mutant of SendToDaemon: the body of an answer is returned whatever its
\* status.
SendToDaemonAnyStatus(outcome) == IF outcome \in {"ok", "status"} THEN "audio" ELSE "none"

\* _send_to_daemon: one POST /voice/transcribe; status 200 returns r.content
\* (which may be empty), anything else None.
SendToDaemon(outcome) ==
    CASE outcome = "ok" -> "audio"
      [] outcome = "ok_empty" -> "empty"
      [] OTHER -> "none"

\* Whether the caller goes on to Speaking: `if response_audio is None` in
\* the initial turn, `if response_audio:` in the follow-up turn.
Accepts(t, resp) == IF t = 1 THEN resp # "none" ELSE resp = "audio"

\* Mutant of AfterTranscribe: a request that failed is sent again.
AfterTranscribeRetries(outcome, t, resp) ==
    IF outcome \in Failures THEN "send"
    ELSE IF Accepts(t, resp) THEN "speaking" ELSE "error"

\* Where _voice_interaction_loop goes with what _send_to_daemon returned:
\* on to Speaking or to the end of the turn; the request is not repeated.
AfterTranscribe(outcome, t, resp) == IF Accepts(t, resp) THEN "speaking" ELSE "error"

Send ==
    /\ pcMain = "send"
    /\ \E outcome \in {"ok", "ok_empty"} \cup Failures :
         LET resp == SendToDaemon(outcome)
         IN /\ response_audio' = resp
            /\ pcMain' = AfterTranscribe(outcome, turn, resp)
            /\ events' = events \o <<"transcribe", IF outcome \in Failures THEN "failed" ELSE "response">>
    /\ audio_data' = None
    /\ UNCHANGED <<sharedVars, configVars, prediction, turn, recVars, cur, det,
                   cbVars, pcStop, fired, frameWakes, reset_due>>

\* play_error_sound(self.volume) and the return that follows it.
ErrorSound ==
    /\ pcMain = "error"
    /\ \/ pcMain' = "wake_finally"
       \/ pcMain' = "wake_except"
    /\ events' = events \o <<"error_tone">>
    /\ UNCHANGED <<sharedVars, configVars, prediction, turn, recVars, audio_data,
                   response_audio, cur, det, cbVars, pcStop, fired, frameWakes, reset_due>>

\* `self.state = State.SPEAKING` (initial turn and follow-up turn).
SetSpeaking ==
    /\ pcMain = "speaking"
    /\ state' = SPEAKING
    /\ pcMain' = "pawi_reset"
    /\ events' = events \o <<"s:speaking">>
    /\ UNCHANGED <<running, lockHeld, interrupted, cbUp, playback, configVars,
                   prediction, turn, recVars, audio_data, response_audio, cur, det,
                   cbVars, pcStop, fired, frameWakes, reset_due>>

\* ------------------------------- main thread: _play_audio_with_interrupt

FreeSlot == CHOOSE k \in Detectors : ~Alive(k) /\ \A j \in Detectors : j < k => Alive(j)

\* `self._interrupted = False` on entry.
EntryInterrupted == FALSE

\* Entry: the flag is cleared; with enable_stop_interrupt a detector thread
\* (with an Event of its own) is started before _play_audio is called.
PawiReset ==
    /\ pcMain = "pawi_reset"
    /\ interrupted' = EntryInterrupted
    /\ IF enable_stop_interrupt
       THEN /\ cur' = FreeSlot
            /\ det' = [det EXCEPT ![FreeSlot] =
                          [st |-> "read", speech_frames |-> 0, stop |-> FALSE]]
       ELSE /\ cur' = 0
            /\ det' = det
    /\ pcMain' = "play"
    /\ fired' = FALSE
    /\ UNCHANGED <<state, running, lockHeld, cbUp, playback, configVars, prediction,
                   turn, recVars, audio_data, response_audio, cbVars, pcStop,
                   events, frameWakes, reset_due>>

AfterPlayAudio == IF cur = 0 THEN "after_play" ELSE "pawi_stop"

\* _play_audio up to sd.play: a buffer that is no WAV, or an audio error, is
\* caught and logged and nothing is played.
PlayAudio ==
    /\ pcMain = "play"
    /\ \/ /\ response_audio = "audio"
          /\ playback' = "playing"
          /\ pcMain' = "play_wait"
       \/ /\ playback' = playback
          /\ pcMain' = AfterPlayAudio
    /\ response_audio' = "none"
    /\ UNCHANGED <<state, running, lockHeld, interrupted, cbUp, configVars,
                   prediction, turn, recVars, audio_data, cur, det, cbVars, pcStop,
                   histVars>>

\* sd.wait() returns: the audio was played to its end, or sd.stop() cut it.
PlayWait ==
    /\ pcMain = "play_wait"
    /\ playback' = "none"
    /\ pcMain' = AfterPlayAudio
    /\ events' = events \o <<IF playback = "stopped" THEN "cut" ELSE "played">>
    /\ UNCHANGED <<state, running, lockHeld, interrupted, cbUp, configVars,
                   prediction, turn, recVars, audio_data, response_audio, cur, det,
                   cbVars, pcStop, fired, frameWakes, reset_due>>

\* finally: stop_event.set()
PawiStop ==
    /\ pcMain = "pawi_stop"
    /\ det' = [det EXCEPT ![cur].stop = TRUE]
    /\ pcMain' = "pawi_join"
    /\ UNCHANGED <<sharedVars, configVars, prediction, turn, recVars, audio_data,
                   response_audio, cur, cbVars, pcStop, histVars>>

\* detector_thread.join(timeout=1.0): returns when the thread has ended, or
\* after the timeout with the thread still alive.
PawiJoin ==
    /\ pcMain = "pawi_join"
    /\ \/ ~Alive(cur)
       \/ Alive(cur) /\ NumAlive < MaxDetectors
    /\ cur' = 0
    /\ pcMain' = "after_play"
    /\ UNCHANGED <<sharedVars, configVars, prediction, turn, recVars, audio_data,
                   response_audio, det, cbVars, pcStop, histVars>>

\* ------------------------------------------ main thread: after a playback

\* Mutant of OffersFollowUp: the follow-up turn recurses into another one.
OffersFollowUpAgain(t) == TRUE

\* The code after a playback offers a follow-up only after the initial one.
OffersFollowUp(t) == t = 1

\* Mutant of OpensWindow: the interrupted flag is not looked at.
OpensWindowUnchecked(intr, enabled) == enabled

\* After the initial playback: `if self._interrupted: ...; return`, then
\* `if self.follow_up_duration > 0:`.
OpensWindow(intr, enabled) == ~intr /\ enabled

\* The code after a playback. After the initial one: `if self._interrupted:
\* self._interrupted = False; return`, then the entry of
\* _listen_for_follow_up when follow_up_duration > 0. After the follow-up
\* playback the function just ends.
AfterPlay ==
    /\ pcMain = "after_play"
    /\ IF OffersFollowUp(turn)
       THEN /\ interrupted' = FALSE
            /\ IF OpensWindow(interrupted, follow_up_enabled)
               THEN /\ pcMain' = "followup"
                    /\ events' = events \o <<"window">>
               ELSE /\ pcMain' = "wake_finally"
                    /\ events' = events
       ELSE /\ pcMain' = "wake_finally"
            /\ UNCHANGED <<interrupted, events>>
    /\ fired' = FALSE
    /\ UNCHANGED <<state, running, lockHeld, cbUp, playback, configVars, prediction,
                   turn, recVars, audio_data, response_audio, cur, det, cbVars,
                   pcStop, frameWakes, reset_due>>

\* What _listen_for_follow_up returns after its loop.
FollowUpResult(fs, speech) == IF ~speech \/ fs = <<>> THEN None ELSE PcmToWav(fs)

\* Mutant of AfterFollowUp: the test `is not None` is missing.
AfterFollowUpUnchecked(data, why) ==
    /\ ClearRecorder
    /\ audio_data' = data
    /\ turn' = 2
    /\ pcMain' = "processing"
    /\ events' = events \o <<why>>

\* _voice_interaction_loop after _listen_for_follow_up: `if follow_up_audio
\* is not None`, the follow-up turn starts at Processing.
AfterFollowUp(data, why) ==
    /\ ClearRecorder
    /\ IF data = None
       THEN /\ pcMain' = "wake_finally"
            /\ events' = events \o <<why>>
            /\ UNCHANGED <<audio_data, turn>>
       ELSE /\ audio_data' = data
            /\ turn' = 2
            /\ pcMain' = "processing"
            /\ events' = events \o <<"follow_up">>

\* Mutant of WindowOver: the listener waits for the overall maximum.
WindowNeverOver(w, start_wait) == FALSE

\* `elif waited >= start_wait_frames: return None`
WindowOver(w, start_wait) == w >= start_wait

StartWindowOver(w) == WindowOver(w, StartWaitFrames)

\* One iteration of _listen_for_follow_up's `for i in range(max_frames)`:
\* before speech it counts the frames waited and gives up when the start
\* window is over; from the first frame above the threshold on it appends
\* the frames and stops on silence_needed quiet frames in a row.
FollowUpFrame ==
    /\ pcMain = "followup"
    /\ iter < FollowUpMaxFrames
    /\ IF ~running
       THEN AfterFollowUp(None, "aborted")
       ELSE \/ \E loud \in BOOLEAN :
                 LET last == iter + 1 >= FollowUpMaxFrames
                     fs == IF has_speech \/ loud THEN Append(frames, loud) ELSE frames
                     sp == has_speech \/ loud
                     sc == IF loud THEN 0
                           ELSE IF has_speech THEN silence_count + 1 ELSE silence_count
                     w == IF has_speech THEN waited ELSE waited + 1
                     gives_up == ~has_speech /\ ~loud /\ StartWindowOver(w)
                     breaks == has_speech /\ sc >= SilenceFramesNeeded
                 IN IF gives_up
                    THEN AfterFollowUp(None, "no_speech")
                    ELSE IF breaks \/ last
                    THEN AfterFollowUp(FollowUpResult(fs, sp), "no_speech")
                    ELSE /\ frames' = fs
                         /\ has_speech' = sp
                         /\ silence_count' = sc
                         /\ waited' = w
                         /\ iter' = iter + 1
                         /\ UNCHANGED <<pcMain, audio_data, turn, events>>
            \/ AfterFollowUp(None, "aborted")
    /\ UNCHANGED <<sharedVars, configVars, prediction, response_audio, cur, det,
                   cbVars, pcStop, fired, frameWakes, reset_due>>

\* --------------------------------------------- interrupt detector threads

\* A detector thread is blocked in stream.read between its steps. One step
\* is one frame: the frame is compared with 2 * silence_threshold,
\* speech_frames counts the consecutive frames above it and the third in a
\* row declares the interrupt (self._interrupted = True; sd.stop(); return);
\* otherwise the thread goes round `while not stop_event.is_set()` into the
\* next read, or ends. A read error ends the thread (except clause).
\* Mutant of Declares: one frame above the threshold is enough.
DeclaresOnBlip(n) == n >= 1

Declares(n) == n >= InterruptFrames

InPlayback == pcMain \in {"play", "play_wait", "pawi_stop", "pawi_join", "after_play"}

DetectorFrame(k) ==
    /\ det[k].st = "read"
    /\ \/ \E loud \in BOOLEAN :
            LET n == IF loud THEN det[k].speech_frames + 1 ELSE 0
            IN IF loud /\ Declares(n)
               THEN /\ interrupted' = TRUE
                    /\ playback' = IF playback = "playing" THEN "stopped" ELSE playback
                    /\ det' = [det EXCEPT ![k] = DeadDetector]
                    /\ fired' = (fired \/ InPlayback)
               ELSE /\ det' = [det EXCEPT ![k] = IF det[k].stop THEN DeadDetector
                                                 ELSE [det[k] EXCEPT !.speech_frames = n]]
                    /\ UNCHANGED <<interrupted, playback, fired>>
       \/ /\ det' = [det EXCEPT ![k] = DeadDetector]
          /\ UNCHANGED <<interrupted, playback, fired>>
    /\ UNCHANGED <<state, running, lockHeld, cbUp, configVars, mainVars, cbVars,
                   pcStop, events, frameWakes, reset_due>>

\* ------------------------------------------------ callback server thread

\* Malformed bodies: /play with Content-Length 0, /chime with a body that
\* is not JSON, /chime with a body that is JSON but not an object ([], null,
\* a number, a string).
MalformedBodies == {"play_no_body", "chime_not_json", "chime_not_object"}

\* What the handlers do with a malformed body. _handle_play answers 400 on
\* Content-Length 0. _handle_chime answers 400 on json.JSONDecodeError only:
\* for a body that json.loads reads into something else than a dict,
\* `data.get("text", "")` raises AttributeError out of the handler.
BodyAnswer(body) == IF body = "chime_not_object" THEN "raise" ELSE "400"

\* do_POST of a request with a malformed body. Nothing else is done with it.
CallbackMalformed ==
    /\ cbUp
    /\ pcCb = "serve"
    /\ \E body \in MalformedBodies :
          /\ cbEvents' = <<body>>
          /\ IF BodyAnswer(body) = "400"
             THEN cbResult' = "400" /\ pcCb' = "respond"
             ELSE cbResult' = cbResult /\ pcCb' = "raised"
    /\ UNCHANGED <<sharedVars, configVars, mainVars, det, cbFrames, cbSilence,
                   cbSpeech, pcStop, histVars>>

\* An exception out of a handler: socketserver logs it (handle_error) and
\* closes the connection, no answer is written, and the server takes the
\* next request.
HandlerRaised ==
    /\ pcCb = "raised"
    /\ cbEvents' = <<>>
    /\ pcCb' = "serve"
    /\ UNCHANGED <<sharedVars, configVars, mainVars, det, cbFrames, cbSilence,
                   cbSpeech, cbResult, pcStop, histVars>>

\* Mutant of ChimeObserves: the handler does not look at ClientState.
ChimeObservesIdle == IDLE

\* What _handle_chime's test reads: client.state, without the lock.
ChimeObserves == state

\* _handle_chime with a well-formed body, up to its test `if client is None
\* or client.state != State.IDLE:` -> rejected, Client busy.
ChimeCheck ==
    /\ cbUp
    /\ pcCb = "serve"
    /\ IF ChimeObserves # IDLE
       THEN /\ cbResult' = "busy"
            /\ pcCb' = "respond"
       ELSE /\ cbResult' = cbResult
            /\ pcCb' = "chime_sound"
    /\ UNCHANGED <<sharedVars, configVars, mainVars, det, cbFrames, cbSilence,
                   cbSpeech, cbEvents, pcStop, histVars>>

\* play_chime_sound(client.volume), then the entry of
\* _listen_for_confirmation. An audio error raises out of the handler: the
\* request gets no answer and the server goes on.
ChimeSound ==
    /\ pcCb = "chime_sound"
    /\ \/ pcCb' = "chime_listen" /\ cbEvents' = <<"tone">>
       \/ pcCb' = "serve" /\ cbEvents' = <<>>
    /\ UNCHANGED <<sharedVars, configVars, mainVars, det, cbFrames, cbSilence,
                   cbSpeech, cbResult, pcStop, histVars>>

\* A confirmation listener that has returned.
ClearConfirmation ==
    /\ cbFrames' = 0
    /\ cbSilence' = 0
    /\ cbSpeech' = FALSE

\* Mutant of ConfirmationHeard: the test of has_speech is missing.
ConfirmationAlwaysHeard(speech) == TRUE

\* `if not has_speech: return "timeout"`
ConfirmationHeard(speech) == speech

\* One iteration of _listen_for_confirmation's `for _ in range(max_frames)`
\* (it does not look at _running); after the loop, no speech is "timeout",
\* and so is an audio error.
ChimeListen ==
    /\ pcCb = "chime_listen"
    /\ cbFrames < ConfirmMaxFrames
    /\ \/ \E loud \in BOOLEAN :
            LET sp == cbSpeech \/ loud
                sc == IF loud THEN 0 ELSE cbSilence + 1
                stop == (sp /\ sc >= ConfirmSilenceNeeded) \/ cbFrames + 1 >= ConfirmMaxFrames
            IN IF ~stop
               THEN /\ cbFrames' = cbFrames + 1
                    /\ cbSpeech' = sp
                    /\ cbSilence' = sc
                    /\ UNCHANGED <<pcCb, cbResult, cbEvents>>
               ELSE /\ ClearConfirmation
                    /\ IF ~ConfirmationHeard(sp)
                       THEN /\ cbResult' = "timeout"
                            /\ pcCb' = "respond"
                       ELSE /\ cbResult' = cbResult
                            /\ pcCb' = "chime_stt"
                    /\ cbEvents' = cbEvents \o <<IF sp THEN "speech" ELSE "no_speech">>
       \/ /\ cbResult' = "timeout"
          /\ pcCb' = "respond"
          /\ cbEvents' = cbEvents \o <<"listen_error">>
          /\ ClearConfirmation
    /\ UNCHANGED <<sharedVars, configVars, mainVars, det, pcStop, histVars>>

\* Text recognised by /voice/stt, by what classify_response reads of it:
\* whether it is empty once lower-cased and stripped, and whether it
\* contains a phrase of REJECTION_PHRASES.
SttTexts == [blank : BOOLEAN, rejection : BOOLEAN]

\* classify_response: "timeout" for a text that is empty after strip(),
\* "rejected" when a rejection phrase is in it, else "confirmed" (with a
\* confirmation phrase or without).
classify_response(text) ==
    IF text.blank THEN "timeout"
    ELSE IF text.rejection THEN "rejected"
    ELSE "confirmed"

\* What the request to /voice/stt can come to: a 200 answer with a text, a
\* 200 answer whose body r.json() cannot read, another status, a timeout or
\* another request error.
SttFailures == Failures \cup {"bad_json"}

\* Mutant of SttResult: a failed request counts as no answer.
SttResultDropped(outcome, text) ==
    IF outcome \in SttFailures THEN "timeout" ELSE classify_response(text)

\* The end of _listen_for_confirmation: the classification of a 200 answer;
\* "confirmed" for any other status (else branch) and for any exception
\* (except clause).
SttResult(outcome, text) ==
    IF outcome \in SttFailures THEN "confirmed" ELSE classify_response(text)

\* The one POST /voice/stt of _listen_for_confirmation and what follows it.
ChimeStt ==
    /\ pcCb = "chime_stt"
    /\ \E outcome \in {"ok"} \cup SttFailures, text \in SttTexts :
          /\ ~(text.blank /\ text.rejection)
          /\ outcome \in SttFailures => text = [blank |-> TRUE, rejection |-> FALSE]
          /\ cbResult' = SttResult(outcome, text)
          /\ cbEvents' = cbEvents \o
                <<"stt", IF outcome \in SttFailures THEN "stt_failed" ELSE "stt_ok">>
    /\ pcCb' = "respond"
    /\ UNCHANGED <<sharedVars, configVars, mainVars, det, cbFrames, cbSilence,
                   cbSpeech, pcStop, histVars>>

\* _handle_play with a body: the body is read and `client.state =
\* State.SPEAKING` written, whatever the state was.
PlaySet ==
    /\ cbUp
    /\ pcCb = "serve"
    /\ state' = SPEAKING
    /\ cbEvents' = <<"play">>
    /\ pcCb' = "play_audio"
    /\ UNCHANGED <<running, lockHeld, interrupted, cbUp, playback, configVars,
                   mainVars, det, cbFrames, cbSilence, cbSpeech, cbResult, pcStop,
                   histVars>>

\* client._play_audio(audio_data): blocks until the audio has been played,
\* or returns once its own `except Exception` has logged that it could not
\* be. No detector thread is started on this path.
PlayPushed ==
    /\ pcCb = "play_audio"
    /\ \E outcome \in {"played", "play_error"} : cbEvents' = cbEvents \o <<outcome>>
    /\ pcCb' = "play_finally"
    /\ UNCHANGED <<sharedVars, configVars, mainVars, det, cbFrames, cbSilence,
                   cbSpeech, cbResult, pcStop, histVars>>

\* Mutant of PushFinallyState: the state is left as the playback found it.
PushFinallyStateKept == state

\* What the finally clause of _handle_play writes to client.state.
PushFinallyState == IDLE

\* finally: client.state = State.IDLE, then _json_response(200, {"ok": True})
\* is prepared.
PlayFinally ==
    /\ pcCb = "play_finally"
    /\ state' = PushFinallyState
    /\ cbResult' = "ok"
    /\ pcCb' = "respond"
    /\ UNCHANGED <<running, lockHeld, interrupted, cbUp, playback, configVars,
                   mainVars, det, cbFrames, cbSilence, cbSpeech, cbEvents, pcStop, histVars>>

\* _json_response: the answer is written and the server takes the next
\* request.
Respond ==
    /\ pcCb = "respond"
    /\ cbResult' = "none"
    /\ cbEvents' = <<>>
    /\ pcCb' = "serve"
    /\ UNCHANGED <<sharedVars, configVars, mainVars, det, cbFrames, cbSilence,
                   cbSpeech, pcStop, histVars>>

\* ------------------------------------------- stop() called from outside

\* stop() by another thread (the menu-bar app): _running = False ...
StopCall ==
    /\ pcStop = "idle"
    /\ pcMain \notin {"start", "crashed"}
    /\ running' = FALSE
    /\ pcStop' = "shutdown"
    /\ UNCHANGED <<state, lockHeld, interrupted, cbUp, playback, configVars,
                   mainVars, det, cbVars, histVars>>

\* ... then self._callback_server.stop(), as in MainShutdown.
StopShutdown ==
    /\ pcStop = "shutdown"
    /\ pcCb = "serve"
    /\ cbUp' = FALSE
    /\ pcStop' = "done"
    /\ UNCHANGED <<state, running, lockHeld, interrupted, playback, configVars,
                   mainVars, det, cbVars, histVars>>

\* --------------------------------------------------------- specification

MainStep ==
    \/ Start \/ ListenRead \/ ListenCheck \/ ListenPredict \/ ListenScan
    \/ ListenReset \/ ListenFinally \/ MainShutdown
    \/ HandleWakeGate \/ HandleWakeSet \/ WakeExcept \/ WakeFinally
    \/ InteractionSound \/ InteractionListening \/ RecordFrame
    \/ SetProcessing \/ Send \/ ErrorSound \/ SetSpeaking
    \/ PawiReset \/ PlayAudio \/ PlayWait \/ PawiStop \/ PawiJoin
    \/ AfterPlay \/ FollowUpFrame

DetectorStep == \E k \in Detectors : DetectorFrame(k)

CallbackStep ==
    \/ CallbackMalformed \/ ChimeCheck \/ ChimeSound \/ ChimeListen
    \/ ChimeStt \/ PlaySet \/ PlayPushed \/ PlayFinally \/ Respond \/ HandlerRaised

StopStep == StopCall \/ StopShutdown

Next == MainStep \/ DetectorStep \/ CallbackStep \/ StopStep

Spec == Init /\ [][Next]_vars

\* Progress of the threads: the main thread runs whenever it can (frame
\* reads, requests with a timeout and playback all return), and so does a
\* detector thread.
FairSpec == Spec /\ WF_vars(MainStep) /\ WF_vars(DetectorStep)

\* ------------------------------------- the listeners as functions of a feed

\* _record_utterance on the feed fd while _running stays True and no read
\* fails: `for _ in range(max_frames)` from its i-th iteration on, with the
\* frames appended, silence_count and has_speech so far. read is the number
\* of frames read when it returns.
RECURSIVE RecordLoop(_, _, _, _, _, _, _)
RecordLoop(fd, max_frames, needed, i, fs, sc, sp) ==
    IF i > max_frames
    THEN [read |-> max_frames, out |-> RecordResult(fs, sp)]
    ELSE LET loud == fd[i]
             fs2 == Append(fs, loud)
             sp2 == sp \/ loud
             sc2 == IF loud THEN 0 ELSE sc + 1
         IN IF SilenceBreaks(sp2, sc2, needed)
            THEN [read |-> i, out |-> RecordResult(fs2, sp2)]
            ELSE RecordLoop(fd, max_frames, needed, i + 1, fs2, sc2, sp2)

RecordUtterance(fd, max_frames, needed) ==
    RecordLoop(fd, max_frames, needed, 1, <<>>, 0, FALSE)

\* _listen_for_follow_up on the feed fd, likewise: before speech the frames
\* are counted in waited and not kept.
RECURSIVE FollowUpLoop(_, _, _, _, _, _, _, _, _)
FollowUpLoop(fd, max_frames, needed, start_wait, i, fs, sc, sp, w) ==
    IF i > max_frames
    THEN [read |-> max_frames, out |-> FollowUpResult(fs, sp)]
    ELSE LET loud == fd[i]
         IN IF ~sp
            THEN IF loud
                 THEN FollowUpLoop(fd, max_frames, needed, start_wait, i + 1,
                                   Append(fs, loud), 0, TRUE, w + 1)
                 ELSE IF WindowOver(w + 1, start_wait)
                 THEN [read |-> i, out |-> None]
                 ELSE FollowUpLoop(fd, max_frames, needed, start_wait, i + 1,
                                   fs, sc, sp, w + 1)
            ELSE LET fs2 == Append(fs, loud)
                     sc2 == IF loud THEN 0 ELSE sc + 1
                 IN IF SilenceBreaks(TRUE, sc2, needed)
                    THEN [read |-> i, out |-> FollowUpResult(fs2, TRUE)]
                    ELSE FollowUpLoop(fd, max_frames, needed, start_wait, i + 1,
                                      fs2, sc2, sp, w)

\* max_frames is (follow_up_duration + max_recording) in frames.
ListenForFollowUp(fd, max_frames, needed, start_wait) ==
    FollowUpLoop(fd, start_wait + max_frames, needed, start_wait, 1, <<>>, 0, FALSE, 0)

\* _interrupt_detector on the frames fd it reads before stop_event is set:
\* speech_frames counts the frames above the threshold in a row; reaching
\* the count it sets _interrupted, calls sd.stop() and returns.
RECURSIVE DetectorLoop(_, _, _)
DetectorLoop(fd, i, speech_frames) ==
    IF i > Len(fd)
    THEN [interrupted |-> FALSE, sd_stop |-> FALSE, read |-> Len(fd)]
    ELSE LET n == IF fd[i] THEN speech_frames + 1 ELSE 0
         IN IF fd[i] /\ Declares(n)
            THEN [interrupted |-> TRUE, sd_stop |-> TRUE, read |-> i]
            ELSE DetectorLoop(fd, i + 1, n)

InterruptDetector(fd) == DetectorLoop(fd, 1, 0)

FeedLen == FeedFrames + StartWaitFrames

\* A feed, and a configuration: max_frames, silence_frames_needed and
\* start_wait_frames are at least one frame each; played is the number of
\* frames a detector reads before the playback ends.
FeedInit ==
    /\ MachineInit
    /\ feed \in [1..FeedLen -> BOOLEAN]
    /\ params \in [max_frames : 1..FeedFrames,
                   silence_needed : 1..SilenceFramesNeeded,
                   start_wait_frames : 1..StartWaitFrames,
                   played : 0..FeedLen]
    /\ applied = NotApplied

Applies(fn, result) ==
    /\ applied = NotApplied
    /\ applied' = [fn |-> fn] @@ result
    /\ UNCHANGED <<sharedVars, follow_up_enabled, enable_stop_interrupt, mainVars,
                   det, cbVars, pcStop, histVars, feed, params, lifeVars, appVars>>

ApplyRecordUtterance ==
    Applies("record", RecordUtterance(feed, params.max_frames, params.silence_needed))

ApplyListenForFollowUp ==
    Applies("follow_up",
            ListenForFollowUp(feed, params.max_frames, params.silence_needed,
                              params.start_wait_frames))

ApplyInterruptDetector ==
    Applies("detector", InterruptDetector(SubSeq(feed, 1, params.played)))

FeedNext == ApplyRecordUtterance \/ ApplyListenForFollowUp \/ ApplyInterruptDetector

FeedSpec == FeedInit /\ [][FeedNext]_vars

\* ------------------------------------------------ classify_response on texts

\* The longest text given to classify_response.
MaxTextLen == 4

\* A text is a sequence of characters; these are the characters texts are
\* made of: a blank, lower-case letters and an upper-case letter.
Chars == {" ", "n", "o", "k", "N"}
Texts == UNION {[1..n -> Chars] : n \in 0..MaxTextLen}

CONFIRMATION_PHRASES ==
    {<<"y", "e", "a", "h">>,
     <<"y", "e", "s">>,
     <<"w", "h", "a", "t", "'", "s", " ", "u", "p">>,
     <<"g", "o", " ", "a", "h", "e", "a", "d">>,
     <<"w", "h", "a", "t">>,
     <<"h", "e", "y">>,
     <<"y", "e", "p">>,
     <<"s", "u", "r", "e">>,
     <<"o", "k", "a", "y">>,
     <<"o", "k">>,
     <<"g", "o">>,
     <<"t", "e", "l", "l", " ", "m", "e">>,
     <<"s", "h", "o", "o", "t">>}

REJECTION_PHRASES ==
    {<<"n", "o", "t", " ", "n", "o", "w">>,
     <<"l", "a", "t", "e", "r">>,
     <<"n", "o">>,
     <<"b", "u", "s", "y">>,
     <<"s", "t", "o", "p">>,
     <<"i", "g", "n", "o", "r", "e">>,
     <<"n", "e", "v", "e", "r", " ", "m", "i", "n", "d">>,
     <<"n", "e", "v", "e", "r", "m", "i", "n", "d">>}

\* str.lower() on one character.
LowerChar(c) == IF c = "N" THEN "n" ELSE c

\* Mutant of Lower: the text is left in the case it came in.
LowerKept(t) == t

\* str.lower().
Lower(t) == [i \in DOMAIN t |-> LowerChar(t[i])]

\* str.strip(): the blanks at both ends are dropped.
RECURSIVE LStrip(_)
LStrip(t) == IF t # <<>> /\ Head(t) = " " THEN LStrip(Tail(t)) ELSE t
RECURSIVE RStrip(_)
RStrip(t) ==
    IF t # <<>> /\ t[Len(t)] = " " THEN RStrip(SubSeq(t, 1, Len(t) - 1)) ELSE t
Strip(t) == RStrip(LStrip(t))

\* `phrase in lower`: the phrase is a substring of the text.
Contains(phrase, t) ==
    \E k \in 0..(Len(t) - Len(phrase)) :
        \A j \in 1..Len(phrase) : t[k + j] = phrase[j]

\* What classify_response reads of a text: `lower = text.lower().strip()`,
\* `not lower`, and the loop over REJECTION_PHRASES. The loop over
\* CONFIRMATION_PHRASES returns what the last line returns anyway.
Features(t) ==
    LET lower == Strip(Lower(t))
    IN  [blank |-> lower = <<>>,
         rejection |-> \E phrase \in REJECTION_PHRASES : Contains(phrase, lower),
         confirmation |-> \E phrase \in CONFIRMATION_PHRASES : Contains(phrase, lower)]

\* A text on its own, to be classified.
TextInit ==
    /\ MachineInit
    /\ feed \in Texts
    /\ params = NoParams
    /\ applied = NotApplied

ApplyClassifyResponse ==
    Applies("classify", [result |-> classify_response(Features(feed))])

TextNext == ApplyClassifyResponse

TextSpec == TextInit /\ [][TextNext]_vars

\* ------------------------------------- start(), stop() and the heartbeat

\* What _get_local_ip can return: the address of the interface that routes
\* to the outside, which is the system's to change, or "127.0.0.1" when the
\* socket calls fail.
LocalIps == {"lan_a", "lan_b", "127.0.0.1"}

\* self.client_id, set once in __init__.
ClientId == "client"

\* The body _register posts, given what _get_local_ip returned this time
\* (the port is configuration).
RegisterBody(ip) == [kind |-> "register", clientId |-> ClientId, callbackUrl |-> ip]
UnregisterBody == [kind |-> "unregister", clientId |-> ClientId]

\* _register: the body is built, with _get_local_ip called anew, and posted;
\* a status other than 200 and a RequestException are logged.
Register ==
    \E ip \in LocalIps, ok \in BOOLEAN :
        /\ sent' = sent \cup {RegisterBody(ip)}
        /\ hbFailed' = ~ok

\* What of the machine the lifecycle steps leave alone.
lifeFrame ==
    <<state, lockHeld, interrupted, playback, follow_up_enabled,
      enable_stop_interrupt, harnessVars, appVars, prediction, turn, recVars,
      audio_data, response_audio, cur, det, cbVars, histVars>>

\* start(): self._running = True
LifeStart ==
    /\ pcMain = "start"
    /\ running' = TRUE
    /\ pcMain' = "load_model"
    /\ UNCHANGED <<lifeFrame, cbUp, pcStop, lifeVars>>

\* _load_wake_word_model(): a failure raises out of start().
LoadWakeWordModel ==
    /\ pcMain = "load_model"
    /\ pcMain' \in {"server_start", "crashed"}
    /\ UNCHANGED <<lifeFrame, running, cbUp, pcStop, lifeVars>>

\* CallbackServer(...) binds the port (a failure raises out of start()) and
\* start() runs serve_forever in a daemon thread.
\* Mutant of AfterServerStart: the heartbeat is started before the first
\* register.
AfterServerStartHeartbeat == "heartbeat_start"

\* What start() does once the callback server is started: self._register().
AfterServerStart == "register"

CallbackServerStart ==
    /\ pcMain = "server_start"
    /\ \/ cbUp' = TRUE /\ pcMain' = AfterServerStart
       \/ cbUp' = cbUp /\ pcMain' = "crashed"
    /\ UNCHANGED <<lifeFrame, running, pcStop, lifeVars>>

\* self._register() in start(): whatever comes of it, start() goes on.
RegisterAtStart ==
    /\ pcMain = "register"
    /\ Register
    /\ pcMain' = "heartbeat_start"
    /\ UNCHANGED <<lifeFrame, running, cbUp, pcStop, pcHb>>

\* The heartbeat thread is started.
HeartbeatStart ==
    /\ pcMain = "heartbeat_start"
    /\ pcHb' = "test"
    /\ pcMain' = "listening"
    /\ UNCHANGED <<lifeFrame, running, cbUp, pcStop, sent, hbFailed>>

\* _listen_loop, as far as the lifecycle sees it: it is left when _running
\* is found False, on an exception, and on the SystemExit of the signal
\* handler; its finally clause calls stop(), whose first line is
\* self._running = False.
ListenLoopEnds ==
    /\ pcMain = "listening"
    /\ running' = FALSE
    /\ pcMain' = "stop_shutdown"
    /\ UNCHANGED <<lifeFrame, cbUp, pcStop, lifeVars>>

\* stop(), from _listen_loop: self._callback_server.stop()
LifeShutdown ==
    /\ pcMain = "stop_shutdown"
    /\ cbUp' = FALSE
    /\ pcMain' = "unregister"
    /\ UNCHANGED <<lifeFrame, running, pcStop, lifeVars>>

\* stop(), from _listen_loop: self._unregister()
Unregister ==
    /\ pcMain = "unregister"
    /\ sent' = sent \cup {UnregisterBody}
    /\ pcMain' = "done"
    /\ UNCHANGED <<lifeFrame, running, cbUp, pcStop, pcHb, hbFailed>>

\* stop() called from outside (the signal handler, the menu-bar app) once
\* start() has begun: self._running = False
LifeStopCall ==
    /\ pcStop = "idle"
    /\ pcMain \notin {"start", "crashed", "done"}
    /\ running' = FALSE
    /\ pcStop' = "shutdown"
    /\ UNCHANGED <<lifeFrame, cbUp, mainVars, lifeVars>>

\* `if hasattr(self, '_callback_server'): self._callback_server.stop()`
LifeStopShutdown ==
    /\ pcStop = "shutdown"
    /\ cbUp' = FALSE
    /\ pcStop' = "unregister"
    /\ UNCHANGED <<lifeFrame, running, mainVars, lifeVars>>

LifeStopUnregister ==
    /\ pcStop = "unregister"
    /\ sent' = sent \cup {UnregisterBody}
    /\ pcStop' = "done"
    /\ UNCHANGED <<lifeFrame, running, cbUp, mainVars, pcHb, hbFailed>>

\* _heartbeat_loop: `while self._running:`
HeartbeatTest ==
    /\ pcHb = "test"
    /\ pcHb' = IF running THEN "sleep" ELSE "done"
    /\ UNCHANGED <<lifeFrame, running, cbUp, mainVars, pcStop, sent, hbFailed>>

\* time.sleep(self.heartbeat_interval); if not self._running: break
HeartbeatSleep ==
    /\ pcHb = "sleep"
    /\ pcHb' = IF running THEN "register" ELSE "done"
    /\ UNCHANGED <<lifeFrame, running, cbUp, mainVars, pcStop, sent, hbFailed>>

\* Mutant of AfterRegister: the heartbeat gives up on a failed request.
AfterRegisterGivesUp(failed) == IF failed THEN "done" ELSE "test"

\* Where the heartbeat thread goes when _register has returned: back to the
\* test of its loop, whatever came of the request.
AfterRegister(failed) == "test"

\* self._register() in _heartbeat_loop.
HeartbeatRegister ==
    /\ pcHb = "register"
    /\ Register
    /\ pcHb' = AfterRegister(hbFailed')
    /\ UNCHANGED <<lifeFrame, running, cbUp, mainVars, pcStop>>

StartStep ==
    \/ LifeStart \/ LoadWakeWordModel \/ CallbackServerStart \/ RegisterAtStart
    \/ HeartbeatStart
MainStopStep == LifeShutdown \/ Unregister
LifeStopStep == LifeStopCall \/ LifeStopShutdown \/ LifeStopUnregister
HeartbeatStep == HeartbeatTest \/ HeartbeatSleep \/ HeartbeatRegister

LifeNext == StartStep \/ ListenLoopEnds \/ MainStopStep \/ LifeStopStep \/ HeartbeatStep

LifeSpec == Init /\ [][LifeNext]_vars

\* Every thread that can take a step takes one in the end; nothing makes
\* _listen_loop end, and nothing makes anyone call stop().
LifeFairSpec ==
    LifeSpec /\ WF_vars(StartStep) /\ WF_vars(MainStopStep) /\ WF_vars(HeartbeatStep)

\* ------------------------------------------------------ the menu-bar app

\* What the app's steps leave alone: the voice client itself, which each
\* worker thread runs inside client.start().
appFrame ==
    <<sharedVars, follow_up_enabled, enable_stop_interrupt, harnessVars, lifeVars,
      mainVars, det, cbVars, pcStop, histVars>>

Workers == 1..MaxWorkers
WorkerAlive(w) == worker[w].pc # "none"
AliveWorkers == {w \in Workers : WorkerAlive(w)}
FreeWorker == CHOOSE w \in Workers : ~WorkerAlive(w)

\* _start_client past its test of _running: an exception before
\* `self._running = True` (the import, load_config, BMOVoiceClient(config))
\* is shown as an error; otherwise the flag is set, the thread started and
\* the display set to running.
StartClient ==
    \/ /\ display' = [display EXCEPT !.status = "Status: Error", !.icon = "error"]
       /\ UNCHANGED <<app_running, worker, voice_thread>>
    \/ /\ AliveWorkers # Workers
       /\ app_running' = TRUE
       /\ worker' = [worker EXCEPT ![FreeWorker] = [pc |-> "client", stop |-> FALSE]]
       /\ voice_thread' = FreeWorker
       /\ display' = [icon |-> "idle", status |-> "Status: Running", start_stop |-> "Stop"]

\* _delayed_start: timer.stop(); self._start_client()
DelayedStart ==
    /\ pcUi = "idle"
    /\ startup_due
    /\ startup_due' = FALSE
    /\ IF app_running
       THEN UNCHANGED <<app_running, worker, voice_thread, display>>
       ELSE StartClient
    /\ UNCHANGED <<appFrame, pending, pcUi>>

\* toggle when _running is False: _start_client.
ToggleStart ==
    /\ pcUi = "idle"
    /\ ~app_running
    /\ StartClient
    /\ UNCHANGED <<appFrame, pending, pcUi, startup_due>>

\* toggle when _running is True: _stop_client up to its wait.
\* `self._running = False`, then self._voice_client.stop().
ToggleStop ==
    /\ pcUi = "idle"
    /\ app_running
    /\ app_running' = FALSE
    /\ worker' = IF voice_thread = 0 THEN worker
                 ELSE [worker EXCEPT ![voice_thread].stop = TRUE]
    /\ pcUi' = "stop_join"
    /\ UNCHANGED <<appFrame, voice_thread, pending, display, startup_due>>

\* self._voice_thread.join(timeout=5) returns when the thread has ended and
\* also after 5 s with the thread alive; `if self._voice_thread.is_alive():
\* log.warning(...)` is all that is done about the second case.
JoinReturns(w) == TRUE

\* The rest of _stop_client: the wait, `self._voice_client = None;
\* self._voice_thread = None`, and the display set to stopped.
StopJoin ==
    /\ pcUi = "stop_join"
    /\ JoinReturns(voice_thread)
    /\ voice_thread' = 0
    /\ display' = [icon |-> "stopped", status |-> "Status: Stopped", start_stop |-> "Start"]
    /\ pcUi' = "idle"
    /\ UNCHANGED <<appFrame, app_running, worker, pending, startup_due>>

Fields == {"icon", "status", "start_stop"}
NextField(f) ==
    CASE f = "icon" -> "tick_status"
      [] f = "status" -> "tick_start_stop"
      [] f = "start_stop" -> "idle"
TickAt(f) ==
    CASE f = "icon" -> "idle"
      [] f = "status" -> "tick_status"
      [] f = "start_stop" -> "tick_start_stop"
ClearAt(f) ==
    CASE f = "icon" -> "clear_icon"
      [] f = "status" -> "clear_status"
      [] f = "start_stop" -> "clear_start_stop"

\* _apply_pending_ui, one field: `if self._pending_x is not None:` and the
\* statement that sets the display from the field.
TickApply(f) ==
    /\ pcUi = TickAt(f)
    /\ IF pending[f] # "None"
       THEN /\ display' = [display EXCEPT ![f] = pending[f]]
            /\ pcUi' = ClearAt(f)
       ELSE /\ display' = display
            /\ pcUi' = NextField(f)
    /\ UNCHANGED <<appFrame, app_running, worker, voice_thread, pending, startup_due>>

\* _apply_pending_ui, one field: `self._pending_x = None`
TickClear(f) ==
    /\ pcUi = ClearAt(f)
    /\ pending' = [pending EXCEPT ![f] = "None"]
    /\ pcUi' = NextField(f)
    /\ UNCHANGED <<appFrame, app_running, worker, voice_thread, display, startup_due>>

\* Mutant of WorkerWrites: the thread sets the display itself.
WorkerWritesDisplay(f, value) ==
    /\ display' = [display EXCEPT ![f] = value]
    /\ pending' = pending

\* A write of _run_voice_client: to the pending field, never to the display.
WorkerWrites(f, value) ==
    /\ pending' = [pending EXCEPT ![f] = value]
    /\ display' = display

WorkerGoes(w, pc) == worker' = [worker EXCEPT ![w].pc = pc]

\* self._voice_client.start() returns: stop() was called, or _listen_loop
\* ended on its own.
ClientReturns(w) ==
    /\ worker[w].pc = "client"
    /\ WorkerGoes(w, "finally_running")
    /\ UNCHANGED <<appFrame, app_running, voice_thread, pending, display, pcUi, startup_due>>

\* self._voice_client.start() raises.
ClientCrashes(w) ==
    /\ worker[w].pc = "client"
    /\ WorkerGoes(w, "except_icon")
    /\ UNCHANGED <<appFrame, app_running, voice_thread, pending, display, pcUi, startup_due>>

\* except: self._pending_icon_state = "error"
ExceptIcon(w) ==
    /\ worker[w].pc = "except_icon"
    /\ WorkerWrites("icon", "error")
    /\ WorkerGoes(w, "except_status")
    /\ UNCHANGED <<appFrame, app_running, voice_thread, pcUi, startup_due>>

\* except: self._pending_status = f"Status: Crashed ..."
ExceptStatus(w) ==
    /\ worker[w].pc = "except_status"
    /\ WorkerWrites("status", "Status: Crashed")
    /\ WorkerGoes(w, "finally_running")
    /\ UNCHANGED <<appFrame, app_running, voice_thread, pcUi, startup_due>>

\* finally: self._running = False
FinallyRunning(w) ==
    /\ worker[w].pc = "finally_running"
    /\ app_running' = FALSE
    /\ WorkerGoes(w, "finally_start_stop")
    /\ UNCHANGED <<appFrame, voice_thread, pending, display, pcUi, startup_due>>

\* finally: self._pending_start_stop = "Start"
FinallyStartStop(w) ==
    /\ worker[w].pc = "finally_start_stop"
    /\ WorkerWrites("start_stop", "Start")
    /\ WorkerGoes(w, "finally_status")
    /\ UNCHANGED <<appFrame, app_running, voice_thread, pcUi, startup_due>>

\* finally: if self._pending_status is None: ... = "Status: Stopped"
FinallyStatus(w) ==
    /\ worker[w].pc = "finally_status"
    /\ IF pending.status = "None"
       THEN WorkerWrites("status", "Status: Stopped")
       ELSE UNCHANGED <<pending, display>>
    /\ WorkerGoes(w, "finally_icon")
    /\ UNCHANGED <<appFrame, app_running, voice_thread, pcUi, startup_due>>

\* finally: if self._pending_icon_state is None: ... = "stopped"; the
\* thread ends.
FinallyIcon(w) ==
    /\ worker[w].pc = "finally_icon"
    /\ IF pending.icon = "None"
       THEN WorkerWrites("icon", "stopped")
       ELSE UNCHANGED <<pending, display>>
    /\ worker' = [worker EXCEPT ![w] = [pc |-> "none", stop |-> FALSE]]
    /\ UNCHANGED <<appFrame, app_running, voice_thread, pcUi, startup_due>>

UiStep ==
    \/ DelayedStart \/ ToggleStart \/ ToggleStop \/ StopJoin
    \/ \E f \in Fields : TickApply(f) \/ TickClear(f)

WorkerStep ==
    \E w \in Workers :
        \/ ClientReturns(w) \/ ClientCrashes(w) \/ ExceptIcon(w) \/ ExceptStatus(w)
        \/ FinallyRunning(w) \/ FinallyStartStop(w) \/ FinallyStatus(w) \/ FinallyIcon(w)

AppNext == UiStep \/ WorkerStep

\* The app with its client's configuration at the defaults (follow-up and
\* stop interrupt enabled), which no step of the app reads.
AppInit == Init /\ follow_up_enabled /\ enable_stop_interrupt

AppSpec == AppInit /\ [][AppNext]_vars

\* ------------------------------------------------------------ properties

\* Positions of the main thread inside _handle_wake once the gate is passed.
WakePcs ==
    {"vil_sound", "vil_listening", "record", "processing", "send", "error",
     "speaking", "pawi_reset", "play", "play_wait", "pawi_stop", "pawi_join",
     "after_play", "followup", "wake_except", "wake_finally", "wake_finally_raise"}
InWake == pcMain \in WakePcs

Has(tag) == \E i \in DOMAIN events : events[i] = tag
Last(tag) == events # <<>> /\ events[Len(events)] = tag

\* C1: the Idle->Listening transition is an exclusive check-and-set:
\* _handle_wake writes Listening only onto a ClientState that is Idle; a
\* trigger whose gate finds ClientState != Idle changes nothing and starts
\* nothing; one frame starts at most one Listening phase.
C1_ExclusiveCheckAndSet ==
    [][/\ (pcMain = "wake_set" /\ pcMain' # pcMain) => state = IDLE
       /\ (pcMain = "wake_gate" /\ state # IDLE /\ pcMain' # pcMain)
             => (pcMain' = "listen_reset" /\ state' = state /\ events' = events)
       /\ frameWakes' <= 1]_vars

\* C2: every wake event that passed the gate ends, and ClientState is Idle
\* when its handling ends.
C2_WakeEndsIdle == InWake ~> (~InWake /\ state = IDLE)

\* C2 witness: a wake event that raised has just ended, ClientState Idle.
C2_Witness == pcMain = "listen_finally" /\ frameWakes = 1 /\ state = IDLE /\ running

\* C3: at most one of the initial recorder, the follow-up listener and the
\* chime confirmation listener is recording.
Recording ==
    {r \in {"initial", "follow_up", "confirmation"} :
        \/ r = "initial" /\ pcMain = "record"
        \/ r = "follow_up" /\ pcMain = "followup"
        \/ r = "confirmation" /\ pcCb = "chime_listen"}

C3_OneRecording == Cardinality(Recording) <= 1

\* C4: a callback handler starts to act (/chime plays its sound and opens
\* the microphone, /play writes ClientState) only on a ClientState that is
\* Idle at that moment: the check and the act are one atomic step under the
\* gate's lock.
CallbackActs ==
    \/ pcCb = "chime_sound" /\ pcCb' = "chime_listen"
    \/ pcCb = "serve" /\ pcCb' = "play_audio"

C4_CallbackThroughGate == [][CallbackActs => state = IDLE]_vars

\* C5: while _oww_model.predict runs, ClientState is Idle.
C5_PredictOnlyIdle == pcMain = "listen_predict" => state = IDLE

\* C6: after the recorder reports no utterance the wake event ends without
\* a transcribe request, and every transcribe request carries an utterance
\* with at least one frame above the silence threshold.
C6_NoSilenceSent ==
    /\ \A i \in DOMAIN events :
         events[i] = "no_utterance"
            => i = Len(events) /\ pcMain = "wake_finally" /\ ~Has("transcribe")
    /\ pcMain = "send" => audio_data.wav /\ audio_data.nloud >= 1

\* C6 witness: the recorder read max_frames quiet frames and the wake event
\* is about to end.
C6_Witness ==
    /\ pcMain = "wake_finally"
    /\ running
    /\ events = <<"s:listening", "listening_sound", "s:listening", "no_utterance">>

\* C7: after a failed transcribe call _send_to_daemon has returned None, the
\* error tone is played, and the wake event ends without a Speaking phase,
\* a follow-up window or another request.
C7_FailureEndsTurn ==
    \A i \in DOMAIN events :
       events[i] = "failed"
          => /\ \A j \in DOMAIN events : j > i => events[j] = "error_tone"
             /\ IF i = Len(events)
                THEN pcMain = "error" /\ response_audio = "none"
                ELSE pcMain \in {"wake_finally", "wake_except", "wake_finally_raise"}

\* C7 witness: the transcribe call of the follow-up turn failed and the
\* error tone was played.
C7_Witness ==
    /\ turn = 2
    /\ pcMain = "wake_finally"
    /\ Has("follow_up")
    /\ Has("failed")
    /\ Last("error_tone")

C9_OneFollowUp ==
    /\ Count("s:speaking") <= 2
    /\ Count("transcribe") <= 2
    /\ Count("window") <= 1
    /\ \A i, j \in DOMAIN events :
         (events[i] = "window" /\ events[j] = "s:speaking" /\ j < i)
            => \A k \in DOMAIN events : events[k] = "s:speaking" => k = j \/ k > i
    /\ (pcMain = "followup" => turn = 1)

\* C9 witness: the follow-up response has been played.
C9_Witness ==
    /\ pcMain = "wake_finally"
    /\ Count("s:speaking") = 2
    /\ Count("played") = 2

\* C10: a wake event with an utterance, a successful transcribe, a playback
\* played to its end and a follow-up window without speech ends with
\* ClientState Idle and exactly one transcribe request.
EndToEnd ==
    /\ Has("utterance")
    /\ Has("response")
    /\ ~Has("failed")
    /\ Has("played")
    /\ Has("window")
    /\ Has("no_speech")

C10_EndToEnd ==
    [][(pcMain \in {"wake_finally", "wake_finally_raise"} /\ pcMain' # pcMain /\ EndToEnd)
          => (state' = IDLE /\ Count("transcribe") = 1)]_vars

\* C10 witness: the end-to-end run is about to end.
C10_Witness == pcMain = "wake_finally" /\ EndToEnd /\ running

\* ClientState values written by the orchestrator in the wake event in
\* progress, in the order written.
StateWrites ==
    SelectSeq(events, LAMBDA e : e \in {"s:listening", "s:processing", "s:speaking"})

\* _handle_wake writes Listening, _voice_interaction_loop writes it again;
\* then Processing, Speaking and, for a follow-up turn, Processing, Speaking.
PhaseOrder ==
    <<"s:listening", "s:listening", "s:processing", "s:speaking",
      "s:processing", "s:speaking">>

IsPrefix(s, t) == Len(s) <= Len(t) /\ SubSeq(t, 1, Len(s)) = s

\* C11: within one wake event the phases run in order: a transcribe request
\* is sent only after a recording has completed and Processing was written,
\* Speaking is written only after the response was received, the follow-up
\* window is open only when the playback and its detector have completed,
\* and the orchestrator's writes of ClientState follow Listening, Processing,
\* Speaking, (Processing, Speaking).
C11_PhasesInOrder ==
    /\ IsPrefix(StateWrites, PhaseOrder)
    /\ \A i \in DOMAIN events :
         /\ events[i] = "transcribe"
               => (i > 2 /\ events[i-1] = "s:processing"
                         /\ events[i-2] \in {"utterance", "follow_up"})
         /\ events[i] = "s:speaking" => (i > 1 /\ events[i-1] = "response")
         /\ events[i] = "window" => \E j \in 1..(i-1) : events[j] = "s:speaking"
    /\ pcMain = "followup" => (playback = "none" /\ NumAlive = 0)

\* C12: a detector thread is alive only while ClientState is Speaking, and
\* at most one detector thread is alive.
C12_OneDetectorWhileSpeaking ==
    /\ \A k \in Detectors : Alive(k) => state = SPEAKING
    /\ NumAlive <= 1

\* C13: once _play_audio_with_interrupt has returned, no detector thread is
\* alive, so none can set the interrupted flag or stop a playback.
C13_DetectorJoinedOnReturn ==
    /\ pcMain = "after_play" => NumAlive = 0
    /\ pcMain = "followup" => ~interrupted

Min(S) == CHOOSE x \in S : \A y \in S : x <= y

\* fd[i-n+1..i] are n frames above the threshold in a row.
RunEndsAt(fd, n, i) == i >= n /\ i <= Len(fd) /\ \A j \in (i - n + 1)..i : fd[j]

\* C14: a detector whose feed during the playback holds 3 or more frames
\* above its threshold in a row sets the interrupted flag and stops the
\* playback at the third frame of the first such run; a detector whose feed
\* holds no such run does neither.
C14_BargeInDetection ==
    applied.fn = "detector" =>
        LET fd == SubSeq(feed, 1, params.played)
            ends == {i \in 1..Len(fd) : RunEndsAt(fd, 3, i)}
        IN IF ends # {}
           THEN applied.interrupted /\ applied.sd_stop /\ applied.read = Min(ends)
           ELSE ~applied.interrupted /\ ~applied.sd_stop

\* C14 witness: the interrupt was declared on a run that came after a run of
\* two, with frames of the playback still to come.
C14_Witness ==
    /\ applied.fn = "detector"
    /\ applied.interrupted
    /\ applied.read < params.played
    /\ \E i \in 1..params.played : feed[i] /\ i + 1 < applied.read /\ ~feed[i + 1]

\* C15: _record_utterance on max_frames frames none of which exceeds the
\* silence threshold reads them all and returns None.
C15_SilenceGivesNone ==
    (applied.fn = "record" /\ \A i \in 1..params.max_frames : ~feed[i])
        => (applied.out = None /\ applied.read = params.max_frames)

\* C15 witness: a recorder that read FeedFrames quiet frames.
C15_Witness ==
    /\ applied.fn = "record"
    /\ params.max_frames = FeedFrames
    /\ \A i \in 1..FeedFrames : ~feed[i]
    /\ applied.out = None

\* The feed starts with n frames above the threshold, then q frames at or
\* below it.
SpeechThenSilence(n, q) ==
    /\ \A i \in 1..n : feed[i]
    /\ \A i \in (n + 1)..(n + q) : ~feed[i]

C17_FollowUpListener ==
    applied.fn = "follow_up" =>
        LET sw == params.start_wait_frames
            last == sw + params.max_frames
            loud == {i \in 1..sw : feed[i]}
        IN IF loud = {}
           THEN applied.out = None /\ applied.read = sw
           ELSE LET first == Min(loud)
                    quiet == {i \in (first + 1)..last :
                                 /\ i - params.silence_needed >= first
                                 /\ \A m \in (i - params.silence_needed + 1)..i : ~feed[m]}
                    stop == Min(quiet \cup {last})
                IN /\ applied.read = stop
                   /\ applied.out.wav
                   /\ applied.out.nframes = stop - first + 1
                   /\ applied.out.nloud = Cardinality({i \in first..stop : feed[i]})

\* C17 witness: the listener gave up at the end of a start window of two
\* frames, although speech came later.
C17_Witness ==
    /\ applied.fn = "follow_up"
    /\ params.start_wait_frames = 2
    /\ applied.out = None
    /\ applied.read = 2
    /\ feed[3]

CbHas(tag) == \E i \in DOMAIN cbEvents : cbEvents[i] = tag

\* A step of the callback server that starts on a request which is neither
\* a /play nor one with a malformed body: a well-formed /chime.
ChimeArrives ==
    /\ pcCb = "serve"
    /\ pcCb' # "serve"
    /\ pcCb' # "play_audio"
    /\ pcCb' # "raised"
    /\ cbResult' # "400"

\* C18: a /chime request that finds ClientState != Idle is answered at once
\* with rejected / Client busy: the handler goes straight to its response,
\* with no tone, no listen and no speech-to-text request, ClientState is left
\* as it was, and the server then takes the next request.
C18_BusyChimeRejected ==
    [][/\ (ChimeArrives /\ state # IDLE)
             => /\ cbResult' = "busy"
                /\ pcCb' = "respond"
                /\ state' = state
                /\ cbEvents' = <<>>
                /\ UNCHANGED <<cbFrames, cbSilence, cbSpeech, playback>>
       /\ (pcCb = "respond" /\ cbResult = "busy" /\ pcCb' # pcCb)
             => (pcCb' = "serve" /\ state' = state /\ cbEvents = <<>>)]_vars

\* C18 witness: a chime is being rejected during a wake event.
C18_Witness == pcCb = "respond" /\ cbResult = "busy" /\ pcMain = "record"

C20_SttFailureConfirms ==
    CbHas("stt_failed")
        => (pcCb = "respond" /\ CbHas("speech") /\ cbResult = "confirmed")

\* C20 witness: speech was heard and the speech-to-text request failed.
C20_Witness ==
    /\ pcCb = "respond"
    /\ cbEvents = <<"tone", "speech", "stt", "stt_failed">>
    /\ cbResult = "confirmed"

\* C21: classify_response answers every text with one of "timeout",
\* "rejected" and "confirmed": "timeout" exactly for a text with nothing but
\* blanks in it; otherwise "rejected" exactly when the text, in lower case,
\* contains a rejection phrase, whatever else it contains; otherwise
\* "confirmed", with a confirmation phrase in it or without.
OnlyBlanks(t) == \A i \in DOMAIN t : t[i] = " "
SaysPhrase(t, phrases) ==
    \E phrase \in phrases, k \in 0..Len(t) :
        /\ k + Len(phrase) <= Len(t)
        /\ \A j \in 1..Len(phrase) : LowerChar(t[k + j]) = phrase[j]
PlayArrives == pcCb = "serve" /\ pcCb' = "play_audio"
C22_PlayPush ==
    [][/\ PlayArrives => state' = SPEAKING
       /\ pcCb = "play_audio" /\ pcCb' # pcCb =>
             /\ pcCb' = "play_finally"
             /\ cbEvents'[Len(cbEvents')] \in {"played", "play_error"}
             /\ det' = det /\ cur' = cur /\ interrupted' = interrupted
             /\ state' = state
       /\ pcCb = "play_finally" /\ pcCb' # pcCb =>
             /\ state' = IDLE
             /\ cbResult' = "ok"
             /\ pcCb' = "respond"]_vars
C22_Witness ==
    /\ pcCb = "respond"
    /\ CbHas("play") /\ CbHas("play_error")
    /\ cbResult = "ok"
    /\ state = IDLE

\* C23: a callback request with a malformed body is answered 400, and
\* changes nothing else: ClientState is as it was, nothing is played and
\* nothing is recorded.
MalformedArrives == pcCb = "serve" /\ \E body \in MalformedBodies : cbEvents' = <<body>>
C23_MalformedGets400 ==
    [][MalformedArrives =>
          /\ cbResult' = "400"
          /\ pcCb' = "respond"
          /\ UNCHANGED <<sharedVars, mainVars, det, cbFrames, cbSilence, cbSpeech>>]_vars

\* C24: a register request that fails stops nothing. At startup the client
\* goes on into its listening loop; in the heartbeat, as long as the client
\* is running, the thread comes back to issue register again, so register is
\* attempted again and again while the client runs.
C24_RegisterRetried ==
    /\ (pcMain = "register") ~> (pcMain = "listening")
    /\ (pcHb = "test" /\ running) ~> (pcHb = "register" \/ ~running)
    /\ (pcHb = "register") ~> (pcHb = "test")
C24_Witness ==
    /\ pcMain = "listening"
    /\ running
    /\ pcHb = "register"
    /\ hbFailed

\* C25: all register requests of one process lifetime carry the same
\* (clientId, callbackUrl).
C25_OneRegistrationRecord ==
    \A a, b \in sent : (a.kind = "register" /\ b.kind = "register") => a = b

\* C26: once _running is False, an iteration of any of the loops of the
\* wake-word listener, the utterance recorder, the follow-up listener and
\* the chime confirmation listener is its last: no loop goes round again.
MainLoopsLeaveWhenStopped ==
    /\ pcMain = "listen_read" /\ pcMain' # pcMain => pcMain' = "listen_finally"
    /\ pcMain \in {"record", "followup"} => ~(pcMain' = pcMain /\ iter' # iter)
ConfirmationLeavesWhenStopped ==
    pcCb = "chime_listen" => ~(pcCb' = pcCb /\ cbFrames' # cbFrames)
C26_LoopsLeaveWhenStopped ==
    [][~running => MainLoopsLeaveWhenStopped /\ ConfirmationLeavesWhenStopped]_vars

\* C27: whatever audio error happens in a wake-triggered turn, the turn is
\* given up with ClientState Idle and the main thread is back in its
\* wake-word loop, where a later trigger can be handled.
C27_AudioErrorNotFatal ==
    [][InWake /\ pcMain' \notin WakePcs =>
          state' = IDLE /\ pcMain' = "listen_reset"]_vars

\* The capture streams that are open. _listen_loop's `with sd.InputStream`
\* encloses its whole while loop, the calls of _handle_wake included; the
\* recorder, the follow-up listener, the confirmation listener and every
\* interrupt detector open a stream of their own around their loop.
WakeStreamOpen ==
    pcMain \notin {"start", "crashed", "listen_finally", "stop_shutdown", "done"}
RecorderStreamOpen == pcMain \in {"record", "followup"}
ConfirmationStreamOpen == pcCb = "chime_listen"
CaptureStreams ==
    (IF WakeStreamOpen THEN 1 ELSE 0) + (IF RecorderStreamOpen THEN 1 ELSE 0)
    + (IF ConfirmationStreamOpen THEN 1 ELSE 0) + NumAlive

\* Positions of the main thread where it reads frames for the wake word.
WakeWordPolling == pcMain \in {"listen_read", "listen_check", "listen_predict", "listen_scan"}

\* C28: at most one capture stream is open at any time, and a listener
\* other than the wake-word one has the device only while the wake-word
\* polling is suspended.
C28_MicrophoneExclusive ==
    /\ CaptureStreams <= 1
    /\ (ConfirmationStreamOpen \/ NumAlive > 0) => ~WakeWordPolling

\* The frames at or below the threshold that end fd[1..i], counted back to
\* the last frame above it.
RECURSIVE QuietRun(_, _)
QuietRun(fd, i) == IF i = 0 \/ fd[i] THEN 0 ELSE 1 + QuietRun(fd, i - 1)

ScanStep == pcMain = "listen_scan" /\ (pcMain' # pcMain \/ prediction' # prediction)
C30_TriggerAndReset ==
    /\ [][ScanStep =>
             /\ pcMain' = "wake_gate" <=>
                   (prediction # <<>> /\ Head(prediction) > WwThreshold)
             /\ pcMain' = "listen_read" <=> prediction = <<>>]_vars
    /\ [](pcMain = "listen_predict" => ~reset_due)

\* C30 witness: a trigger that the gate ignored is about to get its reset.
C30_Witness ==
    /\ pcMain = "listen_reset"
    /\ reset_due
    /\ frameWakes = 0
    /\ state # IDLE

\* C31: nothing but register is sent twice. Each utterance captured in a
\* wake event, the first or a follow-up, is followed by one transcribe
\* request at most, and a request that failed is the last of its wake
\* event; a chime confirmation sends one speech-to-text request at most.
Captured == {i \in DOMAIN events : events[i] \in {"utterance", "follow_up"}}
Transcribes == {i \in DOMAIN events : events[i] = "transcribe"}
C31_NoRetry ==
    /\ \A i, j \in Transcribes :
          i < j => \E k \in Captured : i < k /\ k < j
    /\ \A j \in Transcribes : \E k \in Captured : k < j
    /\ \A i \in DOMAIN events :
          events[i] = "failed" => \A j \in Transcribes : j < i
    /\ Cardinality({i \in DOMAIN cbEvents : cbEvents[i] = "stt"}) <= 1
    /\ CbHas("stt_failed") => pcCb = "respond"

\* C31 witness: the request for a follow-up utterance has failed, after the
\* request for the first utterance was answered.
C31_Witness ==
    /\ Cardinality(Transcribes) = 2
    /\ Last("failed")

\* C32: while the follow-up listener is running, ClientState is Listening.
C32_FollowUpIsListening == pcMain = "followup" => state = LISTENING

\* C35: when ClientState is Idle the main thread is not inside a wake
\* event, no response is being played and no pushed audio is being played.
C35_IdleMeansQuiet ==
    state = IDLE =>
        /\ ~InWake
        /\ playback # "playing"
        /\ pcCb # "play_audio"

\* C36: once an unregister request has been sent, the heartbeat thread
\* sends no register request.
C36_NoRegisterAfterUnregister ==
    [][(UnregisterBody \in sent /\ pcHb = "register") => pcHb' = pcHb]_vars

\* C37: the interrupted flag that is read after a playback is true only
\* when that playback was cut before its end.
C37_FlagOfThisPlayback ==
    (pcMain = "after_play" /\ interrupted) => Last("cut")

\* C40: start() starts the callback server, then sends the first register,
\* then starts the heartbeat thread, then enters the wake-word loop; when
\* the wake-word model cannot be loaded (or the server cannot be started)
\* no register is sent and no heartbeat is started.
Registered == \E r \in sent : r.kind = "register"
C40_StartupOrder ==
    /\ [](/\ pcMain \in {"start", "load_model", "server_start", "crashed"} =>
                ~cbUp /\ ~Registered /\ pcHb = "none"
          /\ pcMain = "register" => ~Registered /\ pcHb = "none"
          /\ pcMain = "heartbeat_start" => Registered /\ pcHb = "none"
          /\ pcMain = "listening" => Registered /\ pcHb # "none")
    /\ [][(pcMain = "server_start" /\ pcMain' \notin {"server_start", "crashed"})
             => (cbUp' /\ pcMain' = "register")]_vars
    /\ [][(pcMain = "load_model" /\ pcMain' = "crashed")
             => UNCHANGED <<cbUp, sent, pcHb>>]_vars

\* C40 witness: the wake-word loop is entered with the server up, a register
\* sent and the heartbeat thread started.
C40_Witness ==
    /\ pcMain = "listening"
    /\ running
    /\ cbUp
    /\ Registered
    /\ pcHb = "sleep"

\* A step of a voice-client thread of the menu-bar app.
WorkerMoves == \E w \in Workers : WorkerAlive(w) /\ worker'[w].pc # worker[w].pc

\* C33: a voice-client thread of the menu-bar app never changes the
\* display: it writes pending fields only. A pending field is cleared only
\* by the main thread's timer, in the step after the one in which the timer
\* set the display from that field.
C33_PendingPattern ==
    [][/\ WorkerMoves => display' = display
       /\ \A f \in Fields :
             /\ (pending[f] # "None" /\ pending'[f] = "None") => pcUi = ClearAt(f)
             /\ (pcUi = TickAt(f) /\ pcUi' = ClearAt(f)) => display'[f] = pending[f]
             /\ (pcUi' = ClearAt(f) /\ pcUi # ClearAt(f)) => pcUi = TickAt(f)]_vars

\* C33 witness: the timer has put a crashed thread's status on the display
\* and is about to clear the field.
C33_Witness ==
    /\ pcUi = "clear_status"
    /\ pending.status = "Status: Crashed"
    /\ display.status = "Status: Crashed"

\* C34: when _stop_client has returned, the voice-client thread it stopped
\* is not running any more.
C34_StoppedAfterStop ==
    [][(pcUi = "stop_join" /\ pcUi' = "idle" /\ voice_thread # 0)
          => ~WorkerAlive(voice_thread)]_vars

\* C38: at most one voice-client thread is alive in the menu-bar app.
C38_OneWorker == Cardinality(AliveWorkers) <= 1

\* C39: a pending field is cleared only with the value that was put on the
\* display, so that no value written to it is dropped.
C39_NoLostUpdate ==
    [][\A f \in Fields :
          (pending[f] # "None" /\ pending'[f] = "None") => display[f] = pending[f]]_vars

====
